---- MODULE Spec2Model ----
(***************************************************************************)
(* Model of fqcn-fixer.py: the fqcn map builder (cache load / generation  *)
(* with ansible-doc), the exclude list and config handling, and the       *)
(* line rewriter with its per-file indentation lock.                      *)
(*                                                                         *)
(* Text is modelled as sequences of one-character strings.  A line is a   *)
(* line of the file without its line terminator: the terminator is the    *)
(* last character of a line and no pattern of the script can consume it   *)
(* before the colon it requires.                                           *)
(***************************************************************************)
EXTENDS Integers, Sequences, FiniteSets, TLC

VARIABLES
    pc,                  \* position of the script
    args,                \* parsed command line (argparse namespace)
    cachefile,           \* the fqcn map file on disk: [exists, content]
    fqcndict,            \* insertion-ordered dict: sequence of [k, v]
    fqcnmapfile,         \* flag of line 124 / 129
    modulesdict,         \* answer of `ansible-doc -lj` with the per-module answers
    modidx,              \* modules of modulesdict already handled
    ext,                 \* external invocations and cache writes so far
    exclude_paths,       \* list built at lines 180-195
    disk,                \* candidate files on disk: path -> lines
    backups,             \* backup files on disk: path -> [exists, content]
    parsefiles,          \* files found by the discovery loop
    fidx,                \* files of parsefiles already handled
    curlines,            \* lines fileinput reads from the current file
    lineno,              \* lines of the current file already read
    originallines,
    changedlines,
    startingwhitespaces, \* <<>> models False (both are falsy in python)
    nlines,              \* value of nline for every line of the current file
    symbols,             \* progress symbols printed for the current file
    stderrdiffs,         \* diffs written to stderr
    exitcode,            \* -1 while running
    run,                 \* invocation number of the script on the same tree
    prevrun,             \* what the invocation before this one left behind
    atstart              \* the cache file and the candidate files as this invocation found them

vars == <<pc, args, cachefile, fqcndict, fqcnmapfile, modulesdict, modidx, ext,
          exclude_paths, disk, backups, parsefiles, fidx, curlines, lineno,
          originallines, changedlines, startingwhitespaces, nlines, symbols,
          stderrdiffs, exitcode, run, prevrun, atstart>>

-----------------------------------------------------------------------------
(* Bounds *)

MaxLines == 2      \* lines per candidate file
MaxMods == 2       \* modules listed by ansible-doc -lj

-----------------------------------------------------------------------------
(* Text helpers *)

Range(s) == {s[i] : i \in 1..Len(s)}

IsSpace(c) == c \in {" ", "\t"}

\* s.startswith(p)
StartsWith(s, p) == Len(p) <= Len(s) /\ SubSeq(s, 1, Len(p)) = p

\* order of characters, for sorting keys
CharOrd(c) ==
    CASE c = "\t" -> 1 [] c = " " -> 2 [] c = "-" -> 3 [] c = "." -> 4
      [] c = ":" -> 5 [] c = "_" -> 6 [] c = "a" -> 7 [] c = "f" -> 8
      [] c = "g" -> 9 [] c = "n" -> 10 [] c = "x" -> 11 [] OTHER -> 12

\* python's s < t on strings
RECURSIVE StrLess(_, _)
StrLess(s, t) ==
    IF Len(t) = 0 THEN FALSE
    ELSE IF Len(s) = 0 THEN TRUE
    ELSE IF s[1] # t[1] THEN CharOrd(s[1]) < CharOrd(t[1])
    ELSE StrLess(Tail(s), Tail(t))

\* fqcn.split('.')[-1]
RECURSIVE LastSegment(_)
LastSegment(s) ==
    IF \E i \in 1..Len(s) : s[i] = "."
    THEN LastSegment(Tail(s))
    ELSE s

-----------------------------------------------------------------------------
(* python dict, insertion ordered *)

Keys(d) == [i \in 1..Len(d) |-> d[i].k]
Values(d) == [i \in 1..Len(d) |-> d[i].v]
HasKey(d, k) == \E i \in 1..Len(d) : d[i].k = k
Get(d, k) == d[CHOOSE i \in 1..Len(d) : d[i].k = k].v

\* d.setdefault(k, v): an existing key keeps its value
DictSetKeepsOld(d, k, v) ==
    IF HasKey(d, k) THEN d ELSE Append(d, [k |-> k, v |-> v])

\* d[k] = v : an existing key keeps its position, a new key goes last
DictSet(d, k, v) ==
    IF HasKey(d, k)
    THEN [i \in 1..Len(d) |-> IF d[i].k = k THEN [k |-> k, v |-> v] ELSE d[i]]
    ELSE Append(d, [k |-> k, v |-> v])

\* yaml.load of a document of key: value pairs (a repeated key keeps its last value)
RECURSIVE YamlLoad(_)
YamlLoad(doc) ==
    IF Len(doc) = 0 THEN <<>>
    ELSE LET n == Len(doc)
         IN DictSet(YamlLoad(SubSeq(doc, 1, n - 1)), doc[n].k, doc[n].v)

\* yaml.dump(..., sort_keys=True): the entries in the order of their keys
RECURSIVE YamlDump(_)
YamlDump(d) ==
    IF Len(d) = 0 THEN <<>>
    ELSE LET m == CHOOSE i \in 1..Len(d) :
                     \A j \in 1..Len(d) : j = i \/ StrLess(d[i].k, d[j].k)
             rest == [j \in 1..(Len(d) - 1) |-> IF j < m THEN d[j] ELSE d[j + 1]]
         IN <<d[m]>> \o YamlDump(rest)

\* lines 175-177: the loop body for the values vals
RECURSIVE SelfMapFrom(_, _)
SelfMapFrom(d, vals) ==
    IF Len(vals) = 0 THEN d
    ELSE SelfMapFrom(DictSet(d, vals[1], vals[1]), Tail(vals))

\* the loop of line 176 over the keys instead of the values
SelfMapOverKeys(d) == SelfMapFrom(d, Keys(d))

\* lines 175-177
SelfMap(d) == SelfMapFrom(d, Values(d))

-----------------------------------------------------------------------------
(* The patterns of lines 211, 231 and 236.  The keys are joined with "|"  *)
(* unescaped, so a "." of a key is the regex wildcard; no key of the model *)
(* holds another metacharacter.                                            *)

NoMatch == [ok |-> FALSE, white |-> <<>>, module |-> <<>>]

\* '|'.join(fqcndict.keys()): an empty dict gives one empty alternative
Alternatives(d) == IF Len(d) = 0 THEN << <<>> >> ELSE Keys(d)

\* the alternative alt, read as a regex, matches line from position pos
AltMatchesAt(alt, line, pos) ==
    /\ pos + Len(alt) - 1 <= Len(line)
    /\ \A j \in 1..Len(alt) : alt[j] = "." \/ alt[j] = line[pos + j - 1]

\* the last alternative that matches is taken, not the first
ModuleAtLast(d, line, pos) ==
    LET alts == Alternatives(d)
        hits == {i \in 1..Len(alts) :
                    /\ AltMatchesAt(alts[i], line, pos)
                    /\ pos + Len(alts[i]) <= Len(line)
                    /\ line[pos + Len(alts[i])] = ":"}
    IN IF hits = {} THEN NoMatch
       ELSE LET i == CHOOSE i \in hits : \A j \in hits : i >= j
            IN [ok |-> TRUE, white |-> SubSeq(line, 1, pos - 1),
                module |-> SubSeq(line, pos, pos + Len(alts[i]) - 1)]

\* (?P<module>k1|k2|...): at pos: the alternatives are tried in order
ModuleAt(d, line, pos) ==
    LET alts == Alternatives(d)
        hits == {i \in 1..Len(alts) :
                    /\ AltMatchesAt(alts[i], line, pos)
                    /\ pos + Len(alts[i]) <= Len(line)
                    /\ line[pos + Len(alts[i])] = ":"}
    IN IF hits = {} THEN NoMatch
       ELSE LET i == CHOOSE i \in hits : \A j \in hits : i <= j
            IN [ok |-> TRUE, white |-> SubSeq(line, 1, pos - 1),
                module |-> SubSeq(line, pos, pos + Len(alts[i]) - 1)]

\* the ways \s*-?\s+ matches at the start of line: <<spaces, dash, spaces>>
WhiteParses(line) ==
    {p \in (0..Len(line)) \X {0, 1} \X (1..Len(line)) :
        /\ p[1] + p[2] + p[3] <= Len(line)
        /\ \A i \in 1..p[1] : IsSpace(line[i])
        /\ p[2] = 1 => line[p[1] + 1] = "-"
        /\ \A i \in (p[1] + p[2] + 1)..(p[1] + p[2] + p[3]) : IsSpace(line[i])}

\* the order in which the greedy quantifiers try the parses
Preferred(p, q) ==
    \/ p[1] > q[1]
    \/ p[1] = q[1] /\ p[2] > q[2]
    \/ p[1] = q[1] /\ p[2] = q[2] /\ p[3] >= q[3]

\* _fqcnregex.match(line), line 211
UnlockedMatch(d, line) ==
    LET ok == {p \in WhiteParses(line) : ModuleAt(d, line, p[1] + p[2] + p[3] + 1).ok}
    IN IF ok = {} THEN NoMatch
       ELSE LET p == CHOOSE p \in ok : \A q \in ok : Preferred(p, q)
            IN ModuleAt(d, line, p[1] + p[2] + p[3] + 1)

\* the pattern of line 231 with the literal prefix sw
LockedMatch(d, sw, line) ==
    IF StartsWith(line, sw) THEN ModuleAt(d, line, Len(sw) + 1) ELSE NoMatch

\* fqcnregex.match(line), line 227: fqcnregex is rebound once, at line 231
FqcnMatch(d, sw, line) ==
    IF sw = <<>> THEN UnlockedMatch(d, line) ELSE LockedMatch(d, sw, line)

\* re.sub('^(sw)module:', '\1repl:', line), lines 235-239
ReSub(sw, module, repl, line) ==
    IF /\ StartsWith(line, sw)
       /\ AltMatchesAt(module, line, Len(sw) + 1)
       /\ Len(sw) + Len(module) + 1 <= Len(line)
       /\ line[Len(sw) + Len(module) + 1] = ":"
    THEN sw \o repl \o SubSeq(line, Len(sw) + Len(module) + 1, Len(line))
    ELSE line

\* "*" for every match, without the test of line 240
SymbolOfEveryMatch(matched, module, repl) == IF matched THEN "*" ELSE "."

\* lines 240-245: the progress symbol of a line
Symbol(matched, module, repl) ==
    IF matched /\ module # repl THEN "*" ELSE "."

-----------------------------------------------------------------------------
(* The inputs of a run: what ansible-doc answers, what the cache file and  *)
(* the config file hold, the tree that is searched                         *)

Answer(rc, injson, hasdoc, hascollection, collection, hasmodule, module) ==
    [rc |-> rc, injson |-> injson, hasdoc |-> hasdoc,
     hascollection |-> hascollection, collection |-> collection,
     hasmodule |-> hasmodule, module |-> module]

\* `ansible-doc -j modname` ends with a non-zero status
AnswerFails == Answer(1, FALSE, FALSE, FALSE, <<>>, FALSE, <<>>)
\* the answer is empty or does not hold modname
AnswerNoInfo == Answer(0, FALSE, FALSE, FALSE, <<>>, FALSE, <<>>)
\* the answer holds no doc
AnswerNoDoc == Answer(0, TRUE, FALSE, FALSE, <<>>, FALSE, <<>>)
\* the doc holds no collection
AnswerNoCollection == Answer(0, TRUE, TRUE, FALSE, <<>>, TRUE, <<"g">>)
\* the doc holds no module
AnswerNoModule == Answer(0, TRUE, TRUE, TRUE, <<"n">>, FALSE, <<>>)
\* the doc holds both: n.g, a.g and n.g.f
AnswersBoth ==
    {Answer(0, TRUE, TRUE, TRUE, <<"n">>, TRUE, <<"g">>),
     Answer(0, TRUE, TRUE, TRUE, <<"a">>, TRUE, <<"g">>),
     Answer(0, TRUE, TRUE, TRUE, <<"n", ".", "g">>, TRUE, <<"f">>)}

Answers ==
    {AnswerFails, AnswerNoInfo, AnswerNoDoc, AnswerNoCollection, AnswerNoModule}
        \cup AnswersBoth

SeqsUpTo(S, n) == UNION {[1..m -> S] : m \in 0..n}

\* the modules `ansible-doc -lj` lists, each with the answer its query gets
Listings == SeqsUpTo(Answers, MaxMods)

Entry(k, v) == [k |-> k, v |-> v]

NoFile == [exists |-> FALSE, content |-> <<>>]
CacheOf(doc) == [exists |-> TRUE, content |-> doc]

\* cache files of earlier runs: {x: n.x} and {g: a.g}
CacheDocs ==
    { <<Entry(<<"x">>, <<"n", ".", "x">>)>>,
      <<Entry(<<"g">>, <<"a", ".", "g">>)>> }

\* cache files for the runs of the rewriter: {g: n.g}, {f: n.g.f, g: n.g}
RewriteCacheDocs ==
    { <<Entry(<<"g">>, <<"n", ".", "g">>)>>,
      <<Entry(<<"f">>, <<"n", ".", "g", ".", "f">>), Entry(<<"g">>, <<"n", ".", "g">>)>> }

Config(given, exists, isdict, haskey, paths) ==
    [given |-> given, exists |-> exists, isdict |-> isdict, haskey |-> haskey,
     exclude_paths |-> paths]

\* no --config
ConfigNotGiven == Config(FALSE, FALSE, FALSE, FALSE, <<>>)
\* --config names a file that does not exist
ConfigMissing == Config(TRUE, FALSE, FALSE, FALSE, <<>>)
\* the config file is empty: yaml.load gives None
ConfigEmpty == Config(TRUE, TRUE, FALSE, FALSE, <<>>)
\* the config file holds no exclude_paths
ConfigNoKey == Config(TRUE, TRUE, TRUE, FALSE, <<>>)
\* the config file holds exclude_paths: [u.yml]
ConfigExcludes == Config(TRUE, TRUE, TRUE, TRUE, << <<"u", ".", "y", "m", "l">> >>)

Configs == {ConfigNotGiven, ConfigMissing, ConfigEmpty, ConfigNoKey, ConfigExcludes}

\* --fqcn-map-file, line 109
FqcnMapFilePath == <<"/", "s", "/", "f", "q", "c", "n", ".", "y", "m", "l">>

\* --extensions, line 69
DefaultExtensions == << <<"y", "m", "l">>, <<"y", "a", "m", "l">> >>

FileT == <<"/", "r", "/", "t", ".", "y", "m", "l">>
FileC == <<"/", "r", "/", ".", "g", "i", "t", "/", "c", ".", "y", "m", "l">>

\* what os.walk finds under the working directory, top down
Tree ==
    << [dirpath |-> <<"/", "r">>, files |-> << <<"t", ".", "y", "m", "l">> >>],
       [dirpath |-> <<"/", "r", "/", ".", "g", "i", "t">>, files |-> << <<"c", ".", "y", "m", "l">> >>] >>

TreeFiles == {FileT, FileC}

\* a second directory to search, --directory /q: two files in the directory
\* itself, one in .git, one in the directory h of .git
DirQ == <<"/", "q">>
FileQT == <<"/", "q", "/", "t", ".", "y", "m", "l">>
FileQU == <<"/", "q", "/", "u", ".", "y", "m", "l">>
FileQC == <<"/", "q", "/", ".", "g", "i", "t", "/", "c", ".", "y", "m", "l">>
FileQD == <<"/", "q", "/", ".", "g", "i", "t", "/", "h", "/", "d", ".", "y", "m", "l">>

\* what os.walk finds under /q, top down, with the files of /q in the order
\* names: the order in which a directory lists its files is arbitrary
TreeQ(names) ==
    << [dirpath |-> DirQ, files |-> names],
       [dirpath |-> <<"/", "q", "/", ".", "g", "i", "t">>, files |-> << <<"c", ".", "y", "m", "l">> >>],
       [dirpath |-> <<"/", "q", "/", ".", "g", "i", "t", "/", "h">>, files |-> << <<"d", ".", "y", "m", "l">> >>] >>

TreeQFiles == {FileQT, FileQU, FileQC, FileQD}

\* the walks os.walk(os.path.abspath(args.directory)) can make, line 199
Trees(directory) ==
    IF directory = DirQ
    THEN {TreeQ(<< <<"t", ".", "y", "m", "l">>, <<"u", ".", "y", "m", "l">> >>),
          TreeQ(<< <<"u", ".", "y", "m", "l">>, <<"t", ".", "y", "m", "l">> >>)}
    ELSE {Tree}

\* lines of candidate files: a prefix and the text behind it.  g and n.g are
\* keys of every map of RewriteCacheDocs; nxg is no key and matches the
\* pattern of the key n.g; in g:f: text follows the colon; x is no key.
Prefixes == { <<" ">>, <<" ", " ">>, <<"-", " ">> }

Bodies ==
    { <<"g", ":", " ", "x">>,
      <<"n", ".", "g", ":">>,
      <<"n", "x", "g", ":">>,
      <<"g", ":", "f", ":">>,
      <<"x", ":">> }

RewriteLines ==
    {<<" ">> \o b : b \in Bodies}
        \cup {p \o b : p \in Prefixes, b \in {<<"g", ":", " ", "x">>, <<"n", ".", "g", ":">>}}

RewriteFiles == SeqsUpTo(RewriteLines, MaxLines)

\* t.yml in the runs that start with the map builder, and .git/c.yml
SmallFile == << <<" ", "g", ":", " ", "x">>, <<"-", " ", "g", ":">> >>
ExcludedFile == << <<" ", "g", ":", " ", "x">> >>

-----------------------------------------------------------------------------
(* The fqcn map, lines 122-177 *)

Dot == <<".">>

\* line 158 only for a short name the dict does not hold yet
DetailStepKeepsFirst(d, a) ==
    IF a.rc > 0 THEN d
    ELSE IF ~a.injson THEN d
    ELSE IF a.hasdoc /\ a.hascollection /\ a.hasmodule
         THEN LET fqcn == a.collection \o Dot \o a.module
                  nonfqcn == LastSegment(fqcn)
              IN IF HasKey(d, nonfqcn) THEN d ELSE DictSet(d, nonfqcn, fqcn)
         ELSE d

\* line 155 without the test for the collection
DetailStepWithoutCollectionTest(d, a) ==
    IF a.rc > 0 THEN d
    ELSE IF ~a.injson THEN d
    ELSE IF a.hasdoc /\ a.hasmodule
         THEN LET fqcn == a.collection \o Dot \o a.module
                  nonfqcn == LastSegment(fqcn)
              IN DictSet(d, nonfqcn, fqcn)
         ELSE d

\* lines 147-158 for one module: what the answer of `ansible-doc -j modname`
\* does to the dict.  rc > 0, an answer without the module and a doc without
\* collection or module all leave it alone.
DetailStep(d, a) ==
    IF a.rc > 0 THEN d
    ELSE IF ~a.injson THEN d
    ELSE IF a.hasdoc /\ a.hascollection /\ a.hasmodule
         THEN LET fqcn == a.collection \o Dot \o a.module
                  nonfqcn == LastSegment(fqcn)
              IN DictSet(d, nonfqcn, fqcn)
         ELSE d

\* line 131 without its test: the map is always generated
MustGenerateAlways(mapfileread, update) == TRUE

\* line 131
MustGenerate(mapfileread, update) == ~mapfileread \/ update

\* lines 123-131: the cache file is read; a missing file is no error
LoadCache ==
    /\ pc = "start"
    /\ IF cachefile.exists
       THEN /\ fqcndict' = YamlLoad(cachefile.content)
            /\ fqcnmapfile' = TRUE
       ELSE /\ fqcndict' = <<>>
            /\ fqcnmapfile' = FALSE
    /\ pc' = IF MustGenerate(fqcnmapfile', args.updatefqcnmapfile) THEN "list"
             ELSE "selfmap"
    /\ UNCHANGED <<args, cachefile, modulesdict, modidx, ext, exclude_paths, disk,
                   backups, parsefiles, fidx, curlines, lineno, originallines,
                   changedlines, startingwhitespaces, nlines, symbols, stderrdiffs,
                   exitcode, run,
                   prevrun, atstart>>

\* lines 133-139: `ansible-doc -lj` with check=True answers
ListModules ==
    /\ pc = "list"
    /\ \E answer \in Listings :
          /\ modulesdict' = answer
          /\ modidx' = 0
          /\ pc' = "detail"
          /\ ext' = [ext EXCEPT !.list = @ + 1]
          /\ UNCHANGED exitcode
    /\ UNCHANGED <<args, cachefile, fqcndict, fqcnmapfile, exclude_paths, disk,
                   backups, parsefiles, fidx, curlines, lineno, originallines,
                   changedlines, startingwhitespaces, nlines, symbols, stderrdiffs, run,
                   prevrun, atstart>>

\* lines 133-139 with check=False: the status is not looked at and the loop
\* runs over an empty listing
ListModulesFailsUnchecked ==
    /\ pc = "list"
    /\ ext' = [ext EXCEPT !.list = @ + 1, !.listrc = 1]
    /\ modulesdict' = <<>>
    /\ modidx' = 0
    /\ pc' = "detail"
    /\ UNCHANGED <<args, cachefile, fqcndict, fqcnmapfile, exclude_paths, disk,
                   backups, parsefiles, fidx, curlines, lineno, originallines,
                   changedlines, startingwhitespaces, nlines, symbols, stderrdiffs,
                   exitcode, run, prevrun, atstart>>

\* lines 133-138: `ansible-doc -lj` ends with a non-zero status and
\* check=True raises CalledProcessError, which nothing catches
ListModulesFails ==
    /\ pc = "list"
    /\ ext' = [ext EXCEPT !.list = @ + 1, !.listrc = 1]
    /\ pc' = "CalledProcessError"
    /\ exitcode' = 1
    /\ UNCHANGED <<args, cachefile, fqcndict, fqcnmapfile, modulesdict, modidx,
                   exclude_paths, disk, backups, parsefiles, fidx, curlines, lineno,
                   originallines, changedlines, startingwhitespaces, nlines, symbols,
                   stderrdiffs, run,
                   prevrun, atstart>>

\* lines 140-159: one iteration of the loop over the listed modules
QueryModule ==
    /\ pc = "detail"
    /\ modidx < Len(modulesdict)
    /\ fqcndict' = DetailStep(fqcndict, modulesdict[modidx + 1])
    /\ modidx' = modidx + 1
    /\ ext' = [ext EXCEPT !.detail = @ + 1]
    /\ UNCHANGED <<pc, args, cachefile, fqcnmapfile, modulesdict, exclude_paths, disk,
                   backups, parsefiles, fidx, curlines, lineno, originallines,
                   changedlines, startingwhitespaces, nlines, symbols, stderrdiffs,
                   exitcode, run,
                   prevrun, atstart>>

\* lines 160-173: the dict is dumped to the cache file
WriteCache ==
    /\ pc = "detail"
    /\ modidx = Len(modulesdict)
    /\ cachefile' = [exists |-> TRUE, content |-> YamlDump(fqcndict)]
    /\ ext' = [ext EXCEPT !.cachewrites = @ + 1]
    /\ pc' = "selfmap"
    /\ UNCHANGED <<args, fqcndict, fqcnmapfile, modulesdict, modidx, exclude_paths,
                   disk, backups, parsefiles, fidx, curlines, lineno, originallines,
                   changedlines, startingwhitespaces, nlines, symbols, stderrdiffs,
                   exitcode, run,
                   prevrun, atstart>>

\* lines 175-177
AddSelfMappings ==
    /\ pc = "selfmap"
    /\ fqcndict' = SelfMap(fqcndict)
    /\ pc' = "excludes"
    /\ UNCHANGED <<args, cachefile, fqcnmapfile, modulesdict, modidx, ext,
                   exclude_paths, disk, backups, parsefiles, fidx, curlines, lineno,
                   originallines, changedlines, startingwhitespaces, nlines, symbols,
                   stderrdiffs, exitcode, run,
                   prevrun, atstart>>

-----------------------------------------------------------------------------
(* Paths and the exclude list, lines 22-55 and 179-208 *)

Slash == <<"/">>

\* the working directory of the run
Cwd == <<"/", "r">>

\* line 42-55
GeneralExcludePaths ==
    << <<".", "c", "a", "c", "h", "e">>,
       <<".", "g", "i", "t">>,
       <<".", "h", "g">>,
       <<".", "s", "v", "n">>,
       <<".", "t", "o", "x">>,
       <<".", "c", "o", "l", "l", "e", "c", "t", "i", "o", "n", "s">>,
       <<"*", "/", ".", "g", "i", "t", "h", "u", "b", "/", "*">>,
       <<"*", "/", "m", "o", "l", "e", "c", "u", "l", "e", "/", "*">>,
       <<"*", "/", "g", "r", "o", "u", "p", "_", "v", "a", "r", "s", "/", "*">>,
       <<"*", "/", "h", "o", "s", "t", "_", "v", "a", "r", "s", "/", "*">>,
       <<"*", "/", "v", "a", "r", "s", "/", "*">>,
       <<"*", "/", "d", "e", "f", "a", "u", "l", "t", "s", "/", "*">> >>

\* the components of a path: the text between the slashes, empty ones dropped
RECURSIVE Split(_)
Split(path) ==
    IF Len(path) = 0 THEN <<>>
    ELSE IF path[1] = "/" THEN Split(Tail(path))
    ELSE LET n == IF \E i \in 1..Len(path) : path[i] = "/"
                  THEN (CHOOSE i \in 1..Len(path) :
                           /\ path[i] = "/"
                           /\ \A j \in 1..(i - 1) : path[j] # "/") - 1
                  ELSE Len(path)
         IN <<SubSeq(path, 1, n)>> \o Split(SubSeq(path, n + 1, Len(path)))

IsAbs(path) == Len(path) > 0 /\ path[1] = "/"

\* os.path.normpath of the components of an absolute path: "." dropped,
\* ".." takes the component before it away
RECURSIVE NormParts(_, _)
NormParts(done, parts) ==
    IF Len(parts) = 0 THEN done
    ELSE IF parts[1] = <<".">> THEN NormParts(done, Tail(parts))
    ELSE IF parts[1] = <<".", ".">>
         THEN NormParts(IF Len(done) = 0 THEN done ELSE SubSeq(done, 1, Len(done) - 1),
                        Tail(parts))
    ELSE NormParts(Append(done, parts[1]), Tail(parts))

RECURSIVE JoinParts(_)
JoinParts(parts) ==
    IF Len(parts) = 0 THEN <<>>
    ELSE Slash \o parts[1] \o JoinParts(Tail(parts))

\* os.path.abspath(path)
AbsPath(path) ==
    LET parts == NormParts(<<>>, Split(IF IsAbs(path) THEN path ELSE Cwd \o Slash \o path))
    IN IF Len(parts) = 0 THEN Slash ELSE JoinParts(parts)

\* fnmatch.fnmatchcase(name, pat) with the wildcards * and ?
RECURSIVE FnMatch(_, _)
FnMatch(name, pat) ==
    IF Len(pat) = 0 THEN Len(name) = 0
    ELSE IF pat[1] = "*"
         THEN \E n \in 0..Len(name) : FnMatch(SubSeq(name, n + 1, Len(name)), Tail(pat))
    ELSE /\ Len(name) > 0
         /\ pat[1] = "?" \/ pat[1] = name[1]
         /\ FnMatch(Tail(name), Tail(pat))

\* pathlib.PurePath(path).match(pat): the components are matched from the
\* right; an absolute pattern has to match the whole path
PurePathMatch(path, pat) ==
    LET pp == Split(path)
        qq == Split(pat)
    IN /\ Len(qq) > 0
       /\ Len(qq) <= Len(pp)
       /\ IsAbs(pat) => (Len(qq) = Len(pp) /\ IsAbs(path))
       /\ \A i \in 1..Len(qq) : FnMatch(pp[Len(pp) - Len(qq) + i], qq[i])

\* lines 22-37
isexcluded(path, eps) ==
    LET apath == AbsPath(path)
    IN \E i \in 1..Len(eps) :
          \/ StartsWith(apath, eps[i])
          \/ StartsWith(apath, AbsPath(eps[i]))
          \/ PurePathMatch(path, eps[i])
          \/ FnMatch(apath, eps[i])
          \/ FnMatch(path, eps[i])

\* name.lower().endswith(ext.lower()); the names of the model are lower case
EndsWith(name, e) ==
    Len(e) <= Len(name) /\ SubSeq(name, Len(name) - Len(e) + 1, Len(name)) = e

\* lines 203-208 for one file name: the loop over the extensions
RECURSIVE ExtLoop(_, _, _, _)
ExtLoop(dirpath, name, exts, eps) ==
    IF Len(exts) = 0 THEN <<>>
    ELSE IF EndsWith(name, exts[1])
         THEN LET f == dirpath \o Slash \o name
              IN IF isexcluded(f, eps) THEN <<>>
                 ELSE <<f>> \o ExtLoop(dirpath, name, Tail(exts), eps)
    ELSE ExtLoop(dirpath, name, Tail(exts), eps)

\* lines 202-208: the loop over the files of one directory
RECURSIVE FilesLoop(_, _, _, _)
FilesLoop(dirpath, names, exts, eps) ==
    IF Len(names) = 0 THEN <<>>
    ELSE ExtLoop(dirpath, names[1], exts, eps)
            \o FilesLoop(dirpath, Tail(names), exts, eps)

\* lines 199-208: os.walk visits every directory, an excluded one too: only
\* its own files are skipped
RECURSIVE Walk(_, _, _)
Walk(tree, exts, eps) ==
    IF Len(tree) = 0 THEN <<>>
    ELSE (IF isexcluded(tree[1].dirpath, eps) THEN <<>>
          ELSE FilesLoop(tree[1].dirpath, tree[1].files, exts, eps))
            \o Walk(Tail(tree), exts, eps)

\* lines 179-183
BuildExcludePaths ==
    /\ pc = "excludes"
    /\ exclude_paths' = args.exclude_paths \o GeneralExcludePaths \o <<args.fqcnmapfile>>
    /\ pc' = "config"
    /\ UNCHANGED <<args, cachefile, fqcndict, fqcnmapfile, modulesdict, modidx, ext,
                   disk, backups, parsefiles, fidx, curlines, lineno, originallines,
                   changedlines, startingwhitespaces, nlines, symbols, stderrdiffs,
                   exitcode, run,
                   prevrun, atstart>>

\* config.exclude_paths made absolute, lines 194-195
RECURSIVE AbsAll(_)
AbsAll(eps) ==
    IF Len(eps) = 0 THEN <<>> ELSE <<AbsPath(eps[1])>> \o AbsAll(Tail(eps))

\* lines 185-195.  Line 186 binds config, lines 190 and 193 use _config:
\* with no config argument or no such file _config is unbound at line 193
\* and the script ends with NameError.
ReadConfig ==
    /\ pc = "config"
    /\ IF args.config.given /\ args.config.exists
       THEN /\ exclude_paths' =
                  IF args.config.isdict /\ args.config.haskey
                  THEN exclude_paths \o AbsAll(args.config.exclude_paths)
                  ELSE exclude_paths
            /\ pc' = "discover"
            /\ UNCHANGED exitcode
       ELSE /\ pc' = "NameError"
            /\ exitcode' = 1
            /\ UNCHANGED exclude_paths
    /\ UNCHANGED <<args, cachefile, fqcndict, fqcnmapfile, modulesdict, modidx, ext,
                   disk, backups, parsefiles, fidx, curlines, lineno, originallines,
                   changedlines, startingwhitespaces, nlines, symbols, stderrdiffs, run,
                   prevrun, atstart>>

\* lines 197-208
Discover ==
    /\ pc = "discover"
    /\ \E tree \in Trees(args.directory) :
          parsefiles' = Walk(tree, args.fileextensions, exclude_paths)
    /\ fidx' = 0
    /\ pc' = "files"
    /\ UNCHANGED <<args, cachefile, fqcndict, fqcnmapfile, modulesdict, modidx, ext,
                   exclude_paths, disk, backups, curlines, lineno, originallines,
                   changedlines, startingwhitespaces, nlines, symbols, stderrdiffs,
                   exitcode, run,
                   prevrun, atstart>>

-----------------------------------------------------------------------------
(* The rewriter, lines 213-261 *)

NoBackup == [exists |-> FALSE, content |-> <<>>]

\* --backup-extension, line 95
DotBak == <<".", "b", "a", "k">>

\* lines 214-222 without line 221: the prefix of the file before stays
OpenFileKeepsPrefix ==
    /\ pc = "files"
    /\ fidx < Len(parsefiles)
    /\ LET f == parsefiles[fidx + 1]
       IN /\ curlines' = disk[f]
          /\ IF args.writefiles
             THEN /\ backups' = [backups EXCEPT ![f] = [exists |-> TRUE, content |-> disk[f]]]
                  /\ disk' = [disk EXCEPT ![f] = <<>>]
             ELSE UNCHANGED <<backups, disk>>
    /\ lineno' = 0
    /\ originallines' = <<>>
    /\ changedlines' = <<>>
    /\ nlines' = <<>>
    /\ symbols' = <<>>
    /\ pc' = "lines"
    /\ UNCHANGED <<args, cachefile, fqcndict, fqcnmapfile, modulesdict, modidx, ext,
                   exclude_paths, parsefiles, fidx, stderrdiffs, exitcode, run,
                   startingwhitespaces,
                   prevrun, atstart>>

\* lines 214-222: fileinput opens the next file; with inplace it first moves
\* the file to its backup name, in place of a file of that name, and writes
\* what is printed to a new file.  backups[f] is the file of the name f with
\* args.backupextension, or with .bak when that is empty.
OpenFile ==
    /\ pc = "files"
    /\ fidx < Len(parsefiles)
    /\ LET f == parsefiles[fidx + 1]
       IN /\ curlines' = disk[f]
          /\ IF args.writefiles
             THEN /\ backups' = [backups EXCEPT ![f] = [exists |-> TRUE, content |-> disk[f]]]
                  /\ disk' = [disk EXCEPT ![f] = <<>>]
             ELSE UNCHANGED <<backups, disk>>
    /\ lineno' = 0
    /\ originallines' = <<>>
    /\ changedlines' = <<>>
    /\ startingwhitespaces' = <<>>
    /\ nlines' = <<>>
    /\ symbols' = <<>>
    /\ pc' = "lines"
    /\ UNCHANGED <<args, cachefile, fqcndict, fqcnmapfile, modulesdict, modidx, ext,
                   exclude_paths, parsefiles, fidx, stderrdiffs, exitcode, run,
                   prevrun, atstart>>

\* the test of line 229 inverted: the prefix is never set
NextWhitespacesInverted(sw, m) == IF m.ok /\ sw # <<>> THEN m.white ELSE sw

\* lines 229-230: the prefix of the first match is kept
NextWhitespaces(sw, m) == IF m.ok /\ sw = <<>> THEN m.white ELSE sw

\* lines 223-250: one iteration of the loop over the lines of the file.
\* fqcndict[fqcnmodule] raises KeyError when the matched text is no key.
ProcessLine ==
    /\ pc = "lines"
    /\ lineno < Len(curlines)
    /\ LET f == parsefiles[fidx + 1]
           line == curlines[lineno + 1]
           m == FqcnMatch(fqcndict, startingwhitespaces, line)
           sw == NextWhitespaces(startingwhitespaces, m)
           keyerror == m.ok /\ ~HasKey(fqcndict, m.module)
           repl == Get(fqcndict, m.module)
           nline == IF m.ok THEN ReSub(sw, m.module, repl, line) ELSE line
       IN /\ lineno' = lineno + 1
          /\ originallines' = IF args.printdiff THEN Append(originallines, line)
                              ELSE originallines
          /\ startingwhitespaces' = sw
          /\ IF keyerror
             THEN /\ pc' = "KeyError"
                  /\ exitcode' = 1
                  /\ UNCHANGED <<nlines, symbols, disk, changedlines>>
             ELSE /\ nlines' = Append(nlines, nline)
                  /\ symbols' = Append(symbols, IF m.ok THEN Symbol(TRUE, m.module, repl)
                                                ELSE Symbol(FALSE, <<>>, <<>>))
                  /\ disk' = IF args.writefiles
                             THEN [disk EXCEPT ![f] = Append(disk[f], nline)]
                             ELSE disk
                  /\ changedlines' = IF args.printdiff THEN Append(changedlines, nline)
                                     ELSE changedlines
                  /\ UNCHANGED <<pc, exitcode>>
    /\ UNCHANGED <<args, cachefile, fqcndict, fqcnmapfile, modulesdict, modidx, ext,
                   exclude_paths, backups, parsefiles, fidx, curlines, stderrdiffs, run,
                   prevrun, atstart>>

\* difflib.unified_diff(a, b): nothing for equal inputs
UnifiedDiff(f, a, b) ==
    IF a = b THEN <<>> ELSE <<[file |-> f, fromlines |-> a, tolines |-> b]>>

\* lines 251-261: the end of a file.  At the end of the with block fileinput
\* removes the backup file when the backup extension is empty.
CloseFile ==
    /\ pc = "lines"
    /\ lineno = Len(curlines)
    /\ backups' = IF args.writefiles /\ args.backupextension = <<>>
                  THEN [backups EXCEPT ![parsefiles[fidx + 1]] = NoBackup]
                  ELSE backups
    /\ stderrdiffs' = IF args.printdiff
                      THEN stderrdiffs \o UnifiedDiff(parsefiles[fidx + 1],
                                                      originallines, changedlines)
                      ELSE stderrdiffs
    /\ fidx' = fidx + 1
    /\ pc' = "files"
    /\ UNCHANGED <<args, cachefile, fqcndict, fqcnmapfile, modulesdict, modidx, ext,
                   exclude_paths, disk, parsefiles, curlines, lineno,
                   originallines, changedlines, startingwhitespaces, nlines, symbols,
                   exitcode, run,
                   prevrun, atstart>>

\* the end of the script
Finish ==
    /\ pc = "files"
    /\ fidx = Len(parsefiles)
    /\ pc' = "done"
    /\ exitcode' = 0
    /\ UNCHANGED <<args, cachefile, fqcndict, fqcnmapfile, modulesdict, modidx, ext,
                   exclude_paths, disk, backups, parsefiles, fidx, curlines, lineno,
                   originallines, changedlines, startingwhitespaces, nlines, symbols,
                   stderrdiffs, run,
                   prevrun, atstart>>

-----------------------------------------------------------------------------
(* The script is run again on the same tree with the same command line *)

Rerun ==
    /\ pc = "done"
    /\ run = 1
    /\ args.writefiles
    /\ run' = 2
    /\ prevrun' = [startingwhitespaces |-> startingwhitespaces, curlines |-> curlines,
                   nlines |-> nlines, symbols |-> symbols]
    /\ pc' = "start"
    /\ exitcode' = -1
    /\ ext' = [list |-> 0, listrc |-> 0, detail |-> 0, cachewrites |-> 0]
    /\ fqcndict' = <<>>
    /\ fqcnmapfile' = TRUE
    /\ exclude_paths' = <<>>
    /\ parsefiles' = <<>>
    /\ fidx' = 0
    /\ curlines' = <<>>
    /\ lineno' = 0
    /\ originallines' = <<>>
    /\ changedlines' = <<>>
    /\ startingwhitespaces' = <<>>
    /\ nlines' = <<>>
    /\ symbols' = <<>>
    /\ stderrdiffs' = <<>>
    /\ atstart' = [cachefile |-> cachefile, disk |-> disk]
    /\ UNCHANGED <<args, cachefile, modulesdict, modidx, disk, backups>>

-----------------------------------------------------------------------------
(* Specifications *)

Args(update, config, writefiles, printdiff) ==
    [updatefqcnmapfile |-> update, config |-> config, writefiles |-> writefiles,
     printdiff |-> printdiff, exclude_paths |-> <<>>,
     fqcnmapfile |-> FqcnMapFilePath, fileextensions |-> DefaultExtensions,
     directory |-> Cwd, backupextension |-> DotBak]

\* the state of a run before line 122; args, cachefile and disk are given
InitRun ==
    /\ pc = "start"
    /\ fqcndict = <<>>
    /\ fqcnmapfile = TRUE
    /\ modulesdict = <<>>
    /\ modidx = 0
    /\ ext = [list |-> 0, listrc |-> 0, detail |-> 0, cachewrites |-> 0]
    /\ exclude_paths = <<>>
    /\ backups = [f \in DOMAIN disk |-> NoBackup]
    /\ parsefiles = <<>>
    /\ fidx = 0
    /\ curlines = <<>>
    /\ lineno = 0
    /\ originallines = <<>>
    /\ changedlines = <<>>
    /\ startingwhitespaces = <<>>
    /\ nlines = <<>>
    /\ symbols = <<>>
    /\ stderrdiffs = <<>>
    /\ exitcode = -1
    /\ run = 1
    /\ prevrun = [startingwhitespaces |-> <<>>, curlines |-> <<>>, nlines |-> <<>>,
                  symbols |-> <<>>]

\* a run of the whole script
Init ==
    /\ \E u \in BOOLEAN, c \in Configs : args = Args(u, c, TRUE, TRUE)
    /\ cachefile \in {NoFile} \cup {CacheOf(doc) : doc \in CacheDocs}
    /\ disk = [f \in TreeFiles |-> IF f = FileT THEN SmallFile ELSE ExcludedFile]
    /\ InitRun
    /\ atstart = [cachefile |-> cachefile, disk |-> disk]

Next ==
    \/ LoadCache
    \/ ListModules
    \/ ListModulesFails
    \/ QueryModule
    \/ WriteCache
    \/ AddSelfMappings
    \/ BuildExcludePaths
    \/ ReadConfig
    \/ Discover
    \/ OpenFile
    \/ ProcessLine
    \/ CloseFile
    \/ Finish

Spec == Init /\ [][Next]_vars

\* runs that load the map from the cache file and rewrite one file, twice
\* when the file is written back
InitRewrite ==
    /\ \E w \in BOOLEAN : args = Args(FALSE, ConfigNoKey, w, TRUE)
    /\ cachefile \in {CacheOf(doc) : doc \in RewriteCacheDocs}
    /\ \E t \in RewriteFiles :
          disk = [f \in TreeFiles |-> IF f = FileT THEN t ELSE ExcludedFile]
    /\ InitRun
    /\ atstart = [cachefile |-> cachefile, disk |-> disk]

NextRewrite ==
    \/ LoadCache
    \/ AddSelfMappings
    \/ BuildExcludePaths
    \/ ReadConfig
    \/ Discover
    \/ OpenFile
    \/ ProcessLine
    \/ CloseFile
    \/ Finish
    \/ Rerun

SpecRewrite == InitRewrite /\ [][NextRewrite]_vars

\* the map {f: n.g.f, g: n.g} in the two orders a cache file can list it
OrderedCacheDocs ==
    { <<Entry(<<"f">>, <<"n", ".", "g", ".", "f">>), Entry(<<"g">>, <<"n", ".", "g">>)>>,
      <<Entry(<<"g">>, <<"n", ".", "g">>), Entry(<<"f">>, <<"n", ".", "g", ".", "f">>)>> }

\* --extensions: the default, an extension given twice, an extension that is
\* the end of another one
ExtensionLists ==
    { DefaultExtensions,
      << <<"y", "m", "l">>, <<"y", "m", "l">> >>,
      << <<"y", "m", "l">>, <<"m", "l">> >> }

\* --exclude: nothing, or the glob */u.*
ExcludeLists == { <<>>, << <<"*", "/", "u", ".", "*">> >> }

\* the lines of /q/t.yml: g is rewritten; in n.g:f: the key n.g is followed
\* by a colon and so is the text n.g:f, which the pattern of n.g.f matches
FilesLines == { <<" ", "g", ":", " ", "x">>, <<" ", "n", ".", "g", ":", "f", ":">> }

\* /q/u.yml: the key g behind another prefix
OtherFile == << <<" ", " ", "g", ":", " ", "x">> >>

\* runs that load the map from the cache file and search /q, with every
\* combination of --write-files and --no-diff
InitFiles ==
    /\ \E w \in BOOLEAN, p \in BOOLEAN, e \in ExtensionLists, x \in ExcludeLists :
          \E b \in IF w THEN {DotBak, <<>>} ELSE {DotBak} :
             args = [Args(FALSE, ConfigNoKey, w, p) EXCEPT
                        !.directory = DirQ, !.fileextensions = e,
                        !.exclude_paths = x, !.backupextension = b]
    /\ cachefile \in {CacheOf(doc) : doc \in OrderedCacheDocs}
    /\ \E t \in SeqsUpTo(FilesLines, MaxLines) :
          disk = [f \in TreeQFiles |->
                     IF f = FileQT THEN t ELSE IF f = FileQU THEN OtherFile
                     ELSE ExcludedFile]
    /\ InitRun
    /\ atstart = [cachefile |-> cachefile, disk |-> disk]

NextFiles ==
    \/ LoadCache
    \/ AddSelfMappings
    \/ BuildExcludePaths
    \/ ReadConfig
    \/ Discover
    \/ OpenFile
    \/ ProcessLine
    \/ CloseFile
    \/ Finish

SpecFiles == InitFiles /\ [][NextFiles]_vars

-----------------------------------------------------------------------------
(* What the claims say about a line, stated on the text of the line and    *)
(* the keys of the map, without the patterns of the script                 *)

\* p is whitespace, an optional dash and one or more whitespace characters
WhiteShaped(p) ==
    \E a \in 0..Len(p), dash \in {0, 1} :
        /\ a + dash < Len(p)
        /\ \A i \in 1..a : IsSpace(p[i])
        /\ dash = 1 => p[a + 1] = "-"
        /\ \A i \in (a + dash + 1)..Len(p) : IsSpace(p[i])

\* line is p, the key k and a colon, and whatever follows
KeyBehind(line, p, k) == StartsWith(line, p \o k \o <<":">>)

KnownKeyBehind(line, p) == \E k \in Range(Keys(fqcndict)) : KeyBehind(line, p, k)

\* the lengths of the prefixes of line that a known key and a colon follow
KnownKeyPrefixes(line) ==
    {n \in 1..Len(line) :
        /\ WhiteShaped(SubSeq(line, 1, n))
        /\ KnownKeyBehind(line, SubSeq(line, 1, n))}

PatternMatches(line) == KnownKeyPrefixes(line) # {}

PrefixOf(line) == SubSeq(line, 1, CHOOSE n \in KnownKeyPrefixes(line) : TRUE)

\* the first line of lines that matches, 0 when none does
LockLine(lines) ==
    LET matching == {i \in 1..Len(lines) : PatternMatches(lines[i])}
    IN IF matching = {} THEN 0 ELSE CHOOSE i \in matching : \A j \in matching : i <= j

\* the prefix that is locked when line i of lines is matched
PrefixInForce(lines, i) ==
    LET first == LockLine(SubSeq(lines, 1, i))
    IN IF first = 0 THEN <<>> ELSE PrefixOf(lines[first])

Matched(lines, i) ==
    /\ PrefixInForce(lines, i) # <<>>
    /\ KnownKeyBehind(lines[i], PrefixInForce(lines, i))

KeyOf(lines, i) ==
    CHOOSE k \in Range(Keys(fqcndict)) : KeyBehind(lines[i], PrefixInForce(lines, i), k)

AlreadyQualified(lines, i) ==
    Matched(lines, i) /\ Get(fqcndict, KeyOf(lines, i)) = KeyOf(lines, i)

\* line i with its module token replaced, everything else kept
Expected(lines, i) ==
    IF Matched(lines, i)
    THEN LET p == PrefixInForce(lines, i)
             k == KeyOf(lines, i)
         IN p \o Get(fqcndict, k) \o SubSeq(lines[i], Len(p) + Len(k) + 1, Len(lines[i]))
    ELSE lines[i]

-----------------------------------------------------------------------------
(* C1: within a file the prefix is unset until the first line that matches *)
(* (whitespace, optional dash, whitespace, known key, colon), is then the  *)
(* prefix of that line and stays it; a later line is changed only if it    *)
(* begins with that prefix, a known key and a colon, and a later line with *)
(* a known key behind another prefix is output unchanged.  Stated at every *)
(* position of the script but the abort with KeyError, where the loop has  *)
(* stopped inside an iteration.                                            *)
C1_IndentationLock ==
    pc # "KeyError" =>
        LET first == LockLine(SubSeq(curlines, 1, lineno))
        IN /\ Len(nlines) = lineno
           /\ first = 0 => startingwhitespaces = <<>>
           /\ first # 0 =>
                /\ startingwhitespaces = PrefixOf(curlines[first])
                /\ \A i \in (first + 1)..lineno :
                      /\ nlines[i] # curlines[i]
                            => KnownKeyBehind(curlines[i], startingwhitespaces)
                      /\ (\E n \in KnownKeyPrefixes(curlines[i]) :
                              SubSeq(curlines[i], 1, n) # startingwhitespaces)
                            => nlines[i] = curlines[i]

\* the prefix " " is locked by a line that was rewritten, and the next line
\* holds the known key g behind the prefix "  " and is output unchanged
C1_Witness ==
    /\ pc = "lines"
    /\ lineno = 2
    /\ startingwhitespaces = <<" ">>
    /\ nlines[1] # curlines[1]
    /\ curlines[2] = <<" ", " ", "g", ":", " ", "x">>
    /\ nlines[2] = curlines[2]

(* C2: every line that was read has its line of output: the line with its  *)
(* module token replaced by the value of the map when it matches, the line *)
(* itself when it does not; and when the loop over a file has ended, there *)
(* are as many lines of output as the file has lines.                      *)
C2_EveryLineRewrittenOrKept ==
    /\ \A i \in 1..lineno :
          /\ i <= Len(nlines)
          /\ nlines[i] = Expected(curlines, i)
    /\ pc \in {"done", "KeyError"} => Len(nlines) = Len(curlines)

(* C3: when the script has run on the file a first run wrote back, with    *)
(* the same map, the second run ends, its output is its input, and it      *)
(* locked the same line with the same prefix as the first.                 *)
C3_SecondRunChangesNothing ==
    (run = 2 /\ pc \in {"done", "KeyError"}) =>
        /\ pc = "done"
        /\ disk[FileT] = atstart.disk[FileT]
        /\ nlines = curlines
        /\ startingwhitespaces = prevrun.startingwhitespaces
        /\ LockLine(curlines) = LockLine(prevrun.curlines)

(* C4 as claimed: a matching line whose token is already its mapped value  *)
(* is output unchanged and gets the symbol of the rewritten lines, "*",    *)
(* not the symbol "." of a line that did not match.                        *)
C4_AlreadyQualifiedCountsAsMatched ==
    \A i \in 1..Len(symbols) :
        AlreadyQualified(curlines, i) =>
            /\ nlines[i] = curlines[i]
            /\ symbols[i] = "*"

(* C4 as amended: a matching line whose token is already its mapped value  *)
(* is output unchanged and gets ".", the symbol of a line that did not     *)
(* match; "*" is printed exactly for the matching lines whose token is not *)
(* its mapped value.                                                       *)
C4_AlreadyQualifiedSymbol ==
    /\ Len(symbols) = Len(nlines)
    /\ \A i \in 1..Len(symbols) :
          /\ AlreadyQualified(curlines, i) =>
                (nlines[i] = curlines[i] /\ symbols[i] = ".")
          /\ symbols[i] = "*" <=>
                (Matched(curlines, i) /\ ~AlreadyQualified(curlines, i))
          /\ symbols[i] \in {"*", "."}

\* the line " g: x" was rewritten and got "*"; the line " n.g:" matched,
\* is already qualified and got "."
C4_Witness ==
    /\ Len(symbols) = 2
    /\ curlines[1] = <<" ", "g", ":", " ", "x">>
    /\ curlines[2] = <<" ", "n", ".", "g", ":">>
    /\ AlreadyQualified(curlines, 2)
    /\ symbols = <<"*", ".">>

-----------------------------------------------------------------------------
(* What the claims say about the map, stated on the answers of ansible-doc *)
(* and on the cache file                                                    *)

\* the query of the module answered with both fields
Yields(a) == a.rc = 0 /\ a.injson /\ a.hasdoc /\ a.hascollection /\ a.hasmodule

FqcnOf(a) == a.collection \o <<".">> \o a.module
ShortOf(a) == LastSegment(FqcnOf(a))

EntrySet(d) == {<<d[i].k, d[i].v>> : i \in 1..Len(d)}
KeySet(d) == {d[i].k : i \in 1..Len(d)}
ValueSet(d) == {d[i].v : i \in 1..Len(d)}

\* the last module of the listing that yields the short name k
LastYielding(k) ==
    LET is == {i \in 1..Len(modulesdict) :
                  Yields(modulesdict[i]) /\ ShortOf(modulesdict[i]) = k}
    IN CHOOSE i \in is : \A j \in is : j <= i

ComputedKeys ==
    {ShortOf(modulesdict[i]) : i \in {j \in 1..Len(modulesdict) : Yields(modulesdict[j])}}

\* the entries computed in this run
ComputedEntries == {<<k, FqcnOf(modulesdict[LastYielding(k)])>> : k \in ComputedKeys}

\* the entries of the cache file this run found
LoadedEntries ==
    IF atstart.cachefile.exists THEN EntrySet(YamlLoad(atstart.cachefile.content)) ELSE {}

\* the generation has run to its end and the cache file is written
Generated == pc = "selfmap" /\ ext.cachewrites = 1

\* the positions behind lines 175-177
AfterSelfMap ==
    pc \in {"excludes", "config", "discover", "files", "lines", "done",
            "NameError", "KeyError"}

\* the cache file existed and no update was asked for
LoadPath == atstart.cachefile.exists /\ ~args.updatefqcnmapfile

\* d is e with v -> v for every value v of e, every other key as in e
IsWithSelfMappings(d, e) ==
    /\ KeySet(d) = {x[1] : x \in e} \cup {x[2] : x \in e}
    /\ \A x \in e : Get(d, x[2]) = x[2]
    /\ \A x \in e : x[1] \notin {y[2] : y \in e} => Get(d, x[1]) = x[2]

-----------------------------------------------------------------------------
(* C5: behind the self-mapping loop, on the load path and on the generate  *)
(* path, the map holds v -> v for every value v the map held before (which *)
(* is what the cache file holds: the map was loaded from it or dumped to   *)
(* it), every key that is no such value keeps its value, every value is a  *)
(* key and the map of the value of a key is that value.                    *)
C5_SelfMappings ==
    AfterSelfMap =>
        /\ IsWithSelfMappings(fqcndict, EntrySet(YamlLoad(cachefile.content)))
        /\ \A i \in 1..Len(fqcndict) :
              /\ HasKey(fqcndict, fqcndict[i].v)
              /\ Get(fqcndict, fqcndict[i].v) = fqcndict[i].v

\* the cache {g: a.g} was loaded: the map is g -> a.g, a.g -> a.g
C5_Witness ==
    /\ pc = "excludes"
    /\ LoadPath
    /\ fqcndict = <<Entry(<<"g">>, <<"a", ".", "g">>), Entry(<<"a", ".", "g">>, <<"a", ".", "g">>)>>

(* C6 as claimed: when the generation has run, the map and the cache file  *)
(* hold exactly the entries computed in this run, and none of the cache    *)
(* file the run found.                                                     *)
C6_FreshlyGenerated ==
    Generated =>
        /\ EntrySet(fqcndict) = ComputedEntries
        /\ EntrySet(cachefile.content) = ComputedEntries

(* C6 as amended: when the generation has run, the map and the cache file  *)
(* hold the entries computed in this run and, of the cache file the run    *)
(* found, every entry whose key was not computed in this run; the cache    *)
(* file holds them in the order of their keys.                             *)
C6_GeneratedOverLoaded ==
    Generated =>
        LET expected == ComputedEntries
                           \cup {x \in LoadedEntries : x[1] \notin ComputedKeys}
        IN /\ EntrySet(fqcndict) = expected
           /\ EntrySet(cachefile.content) = expected
           /\ Len(cachefile.content) = Cardinality(expected)
           /\ \A i \in 1..(Len(cachefile.content) - 1) :
                 StrLess(cachefile.content[i].k, cachefile.content[i + 1].k)

\* the run found {x: n.x}, computed g -> n.g and wrote both
C6_Witness ==
    /\ Generated
    /\ args.updatefqcnmapfile
    /\ atstart.cachefile.content = <<Entry(<<"x">>, <<"n", ".", "x">>)>>
    /\ cachefile.content = <<Entry(<<"g">>, <<"n", ".", "g">>), Entry(<<"x">>, <<"n", ".", "x">>)>>

(* C7: when the cache file exists and no update is asked for, ansible-doc  *)
(* is never run, the cache file stays as it was and the map is the cache   *)
(* file with the self-mappings; the cache file is written only on the      *)
(* generate path, and is written once the generation has run to its end.   *)
C7_LoadedCacheIsLeftAlone ==
    /\ LoadPath =>
          /\ ext.list = 0
          /\ ext.detail = 0
          /\ ext.cachewrites = 0
          /\ cachefile = atstart.cachefile
          /\ AfterSelfMap =>
                IsWithSelfMappings(fqcndict, EntrySet(YamlLoad(atstart.cachefile.content)))
    /\ ~LoadPath =>
          /\ ext.cachewrites <= 1
          /\ (pc = "selfmap" \/ AfterSelfMap) => ext.cachewrites = 1

\* a run on the load path has ended and has rewritten a file
C7_Witness ==
    /\ LoadPath
    /\ pc = "done"
    /\ Len(fqcndict) = 2
    /\ disk # atstart.disk
    /\ cachefile = atstart.cachefile

(* C8: when `ansible-doc -lj` has failed, the run has ended with a         *)
(* non-zero exit status and nothing more happens: no module was queried,   *)
(* the cache file is as it was, no candidate file was read, written or     *)
(* backed up.                                                              *)
C8_ListingFailureAborts ==
    ext.listrc > 0 =>
        /\ pc = "CalledProcessError"
        /\ exitcode > 0
        /\ ~ENABLED Next
        /\ ext.detail = 0
        /\ ext.cachewrites = 0
        /\ cachefile = atstart.cachefile
        /\ disk = atstart.disk
        /\ \A f \in TreeFiles : ~backups[f].exists
        /\ parsefiles = <<>>
        /\ curlines = <<>>
        /\ lineno = 0

\* the listing failed in a run that was to update an existing cache file
C8_Witness ==
    /\ pc = "CalledProcessError"
    /\ ext.listrc > 0
    /\ args.updatefqcnmapfile
    /\ args.writefiles
    /\ cachefile.exists

(* C9: a module whose query fails or whose answer lacks a field adds no    *)
(* entry and does not stop the generation: in the loop over the listing    *)
(* the next step is always possible, and when the cache file is written    *)
(* every listed module was queried, every module that yields both fields   *)
(* has its short name in the cache file, with the fqcn of the last module  *)
(* that yields that short name, and every key of the cache file comes from *)
(* a module that yields both fields or from the cache file the run found.  *)
C9_SkippedModulesDoNotAbort ==
    /\ pc = "detail" => ENABLED (QueryModule \/ WriteCache)
    /\ Generated =>
          /\ modidx = Len(modulesdict)
          /\ ext.detail = Len(modulesdict)
          /\ \A i \in 1..Len(modulesdict) :
                Yields(modulesdict[i]) =>
                    <<ShortOf(modulesdict[i]),
                      FqcnOf(modulesdict[LastYielding(ShortOf(modulesdict[i]))])>>
                        \in EntrySet(cachefile.content)
          /\ \A k \in KeySet(cachefile.content) :
                k \in ComputedKeys \/ k \in {x[1] : x \in LoadedEntries}

\* the first module has no collection, the second yields n.g.f: the cache
\* file written holds f -> n.g.f and nothing else
C9_Witness ==
    /\ Generated
    /\ Len(modulesdict) = 2
    /\ modulesdict[1] = AnswerNoCollection
    /\ Yields(modulesdict[2])
    /\ cachefile.content = <<Entry(<<"f">>, <<"n", ".", "g", ".", "f">>)>>

(* C10: with no config file given, or a config file that does not exist,   *)
(* the run does not fail for it: it goes on to the discovery with the      *)
(* exclude list made of the excludes of the command line, the built-in     *)
(* ones and the cache file, and a run that ends, ends with status 0.       *)
C10_AbsentConfigIsNoError ==
    (~args.config.given \/ ~args.config.exists) =>
        /\ pc # "NameError"
        /\ pc \in {"discover", "files", "lines", "done"} =>
              exclude_paths = args.exclude_paths \o GeneralExcludePaths
                                 \o <<args.fqcnmapfile>>
        /\ pc = "done" => exitcode = 0

-----------------------------------------------------------------------------
(* What the claims say about the files of a run, stated on what the files  *)
(* held when the run started                                               *)

\* the lines of a file with the module token of every matching line replaced
RewrittenFile(lines) == [i \in 1..Len(lines) |-> Expected(lines, i)]

\* the file f held this when the run started and is there
Original(f) == [exists |-> TRUE, content |-> atstart.disk[f]]

(* C11: with --write-files and a backup suffix that is not empty, when the *)
(* run has ended every processed file holds the rewritten lines of what it *)
(* held when the run started and the file of its name with the backup      *)
(* suffix holds what it held when the run started; and at no time does a   *)
(* file differ from what it held at the start without that backup being    *)
(* there.                                                                  *)
C11_BackupHoldsTheOriginal ==
    (args.writefiles /\ args.backupextension # <<>>) =>
        /\ pc = "done" =>
              \A f \in Range(parsefiles) :
                 /\ disk[f] = RewrittenFile(atstart.disk[f])
                 /\ backups[f] = Original(f)
        /\ \A f \in DOMAIN disk :
              disk[f] # atstart.disk[f] => backups[f] = Original(f)

\* a directory on the way from the root to the file f has a name of the
\* exclude list
UnderExcludedDirectory(f) ==
    LET parts == Split(f)
    IN \E i \in 1..Len(exclude_paths), j \in 1..(Len(parts) - 1) :
          parts[j] = exclude_paths[i]

\* the path of the file f matches a glob of the exclude list
MatchesExcludedGlob(f) ==
    \E i \in 1..Len(exclude_paths) : FnMatch(f, exclude_paths[i])

(* C12: no file of the list of files to process lies under a directory     *)
(* whose name is in the exclude list, at whatever depth, and none matches  *)
(* a glob of the exclude list.                                             *)
C12_ExcludedFilesAreNotProcessed ==
    \A k \in 1..Len(parsefiles) :
        /\ ~UnderExcludedDirectory(parsefiles[k])
        /\ ~MatchesExcludedGlob(parsefiles[k])

\* the diff of what the file f held at the start and its rewritten lines
DiffOfOriginal(f) ==
    LET a == atstart.disk[f]
        b == RewrittenFile(a)
    IN IF a = b THEN <<>> ELSE <<[file |-> f, fromlines |-> a, tolines |-> b]>>

\* these diffs for the first n files of the list
RECURSIVE DiffsOfOriginals(_)
DiffsOfOriginals(n) ==
    IF n = 0 THEN <<>> ELSE DiffsOfOriginals(n - 1) \o DiffOfOriginal(parsefiles[n])

(* C13: without --write-files no file is changed and no backup is made,    *)
(* with and without the diff; and with and without --write-files, between  *)
(* two files and at the end of the run the lines computed for the last     *)
(* file are the rewritten lines of what that file held when the run        *)
(* started, and with the diff switched on what was printed is, file by     *)
(* file, the diff of what the file held when the run started and its       *)
(* rewritten lines.                                                        *)
C13_WriteBackAndDiffAreIndependent ==
    /\ ~args.writefiles =>
          /\ disk = atstart.disk
          /\ \A f \in DOMAIN backups : ~backups[f].exists
    /\ pc \in {"files", "done"} =>
          /\ fidx > 0 => nlines = RewrittenFile(atstart.disk[parsefiles[fidx]])
          /\ args.printdiff => stderrdiffs = DiffsOfOriginals(fidx)

(* C14: every file starts with no prefix, whatever was matched in the      *)
(* files before it; while its lines are read the prefix and the lines of   *)
(* output are those that follow from the lines of this file and the keys   *)
(* of the map alone, at every place of the file in the list (stated but    *)
(* for the abort with KeyError, where the loop has stopped inside an       *)
(* iteration); and from the discovery of the files on no step changes the  *)
(* map.                                                                    *)
C14_LockStateIsPerFile ==
    /\ [](pc = "lines" =>
            /\ lineno = 0 => startingwhitespaces = <<>>
            /\ startingwhitespaces = PrefixInForce(curlines, lineno)
            /\ curlines = disk[parsefiles[fidx + 1]]
                  \/ curlines = backups[parsefiles[fidx + 1]].content
            /\ \A i \in 1..lineno : nlines[i] = Expected(curlines, i))
    /\ [][(pc \in {"files", "lines"}) => (fqcndict' = fqcndict)]_vars

\* t.yml was read first and locked the prefix " "; u.yml, the second file,
\* has its line rewritten behind the prefix "  "
C14_Witness ==
    /\ pc = "lines"
    /\ parsefiles = <<FileQT, FileQU, FileQD>>
    /\ fidx = 1
    /\ atstart.disk[FileQT] = << <<" ", "g", ":", " ", "x">> >>
    /\ lineno = 1
    /\ startingwhitespaces = <<" ", " ">>
    /\ nlines = << <<" ", " ", "n", ".", "g", ":", " ", "x">> >>

\* the modules among the first n of the listing that yield the short name k
YieldingUpTo(n, k) ==
    {i \in 1..n : Yields(modulesdict[i]) /\ ShortOf(modulesdict[i]) = k}

\* no key is held twice
KeysAreUnique(d) == \A i \in 1..Len(d), j \in 1..Len(d) : d[i].k = d[j].k => i = j

(* C15: in the loop over the listing and when the cache file is written,   *)
(* no error has ended the run, the map holds for every short name that the *)
(* modules handled so far yield the fqcn of the last of them in the order  *)
(* of the listing, and neither the map nor the cache file holds a key      *)
(* twice.                                                                  *)
C15_LastWriteWins ==
    /\ KeysAreUnique(fqcndict)
    /\ KeysAreUnique(cachefile.content)
    /\ (pc = "detail" \/ Generated) =>
          /\ exitcode = -1
          /\ \A i \in 1..modidx :
                Yields(modulesdict[i]) =>
                   LET k == ShortOf(modulesdict[i])
                       last == CHOOSE m \in YieldingUpTo(modidx, k) :
                                  \A j \in YieldingUpTo(modidx, k) : j <= m
                   IN /\ HasKey(fqcndict, k)
                      /\ Get(fqcndict, k) = FqcnOf(modulesdict[last])
    /\ Generated =>
          \A i \in 1..Len(modulesdict) :
             Yields(modulesdict[i]) =>
                Get(cachefile.content, ShortOf(modulesdict[i]))
                   = Get(fqcndict, ShortOf(modulesdict[i]))

\* n.g and a.g are listed in this order and both yield g: the cache file
\* written holds g -> a.g
C15_Witness ==
    /\ Generated
    /\ Len(modulesdict) = 2
    /\ FqcnOf(modulesdict[1]) = <<"n", ".", "g">>
    /\ FqcnOf(modulesdict[2]) = <<"a", ".", "g">>
    /\ Yields(modulesdict[1]) /\ Yields(modulesdict[2])
    /\ cachefile.content = <<Entry(<<"g">>, <<"a", ".", "g">>)>>

-----------------------------------------------------------------------------
(* What the claims say about the choice among the keys                     *)

\* the key k, read as a pattern in which a dot stands for any character,
\* fits the text of line from pos, and a colon follows
KeyFits(k, line, pos) ==
    /\ pos + Len(k) <= Len(line)
    /\ \A j \in 1..Len(k) : k[j] = "." \/ k[j] = line[pos + j - 1]
    /\ line[pos + Len(k)] = ":"

Aborted == [ok |-> FALSE, line |-> <<>>]
Output(line) == [ok |-> TRUE, line |-> line]

\* what becomes of line behind the prefix p when the keys of d are tried in
\* the order of d and the first that fits decides the token
OutcomeInOrder(d, p, line) ==
    LET pos == Len(p) + 1
        fits == {i \in 1..Len(d) : KeyFits(d[i].k, line, pos)}
    IN IF p = <<>> \/ ~StartsWith(line, p) \/ fits = {} THEN Output(line)
       ELSE LET first == CHOOSE i \in fits : \A j \in fits : i <= j
                token == SubSeq(line, pos, pos + Len(d[first].k) - 1)
            IN IF \E i \in 1..Len(d) : d[i].k = token
               THEN Output(p \o Get(d, token)
                             \o SubSeq(line, pos + Len(token), Len(line)))
               ELSE Aborted

\* the entries of d with every two neighbours in the other order: the order
\* of the map when the cache file lists its two entries the other way round
PairwiseSwapped(d) ==
    [i \in 1..Len(d) |-> IF i % 2 = 1 THEN d[i + 1] ELSE d[i - 1]]

(* C16: which key a line matches is decided by the first key, in the order *)
(* of the map, that fits the line behind the prefix: what becomes of the   *)
(* line that was just read, its output or the abort of the run, is what    *)
(* follows from trying the keys in that order.                             *)
C16_FirstAlternativeDecides ==
    (pc \in {"lines", "KeyError"} /\ lineno > 0) =>
        OutcomeInOrder(fqcndict, startingwhitespaces, curlines[lineno])
            = IF pc = "KeyError" THEN Aborted ELSE Output(nlines[lineno])

\* the map lists g, f, n.g, n.g.f: in the line " n.g:f:" the key n.g is the
\* first that fits and the line is output as it is; with the same keys in
\* the order f, g, n.g.f, n.g, the order of the other cache file, n.g.f is
\* the first that fits, the token is n.g:f and the run is aborted
C16_Witness ==
    /\ pc = "lines"
    /\ lineno = 1
    /\ curlines[1] = <<" ", "n", ".", "g", ":", "f", ":">>
    /\ nlines[1] = curlines[1]
    /\ Keys(fqcndict) = << <<"g">>, <<"f">>, <<"n", ".", "g">>, <<"n", ".", "g", ".", "f">> >>
    /\ EntrySet(PairwiseSwapped(fqcndict)) = EntrySet(fqcndict)
    /\ OutcomeInOrder(PairwiseSwapped(fqcndict), startingwhitespaces, curlines[1]) = Aborted

(* C17: whenever the next line of the file matches the pattern in force,   *)
(* the text captured as the module is a key of the map, and no run is      *)
(* aborted by the lookup of line 237.                                      *)
C17_MatchedTokenIsAKey ==
    /\ pc # "KeyError"
    /\ (pc = "lines" /\ lineno < Len(curlines)) =>
          LET m == FqcnMatch(fqcndict, startingwhitespaces, curlines[lineno + 1])
          IN m.ok => HasKey(fqcndict, m.module)

(* C18: the list of files to process holds no path twice, whatever the     *)
(* list of extensions is.                                                  *)
C18_EachFileOnce ==
    \A i \in 1..Len(parsefiles), j \in 1..Len(parsefiles) :
        parsefiles[i] = parsefiles[j] => i = j

====
